---- MODULE Spec2Model ----
(***************************************************************************)
(* Model of the geographic core of road-detector-go: geo.Calculator        *)
(* (DistanceMeters, InterpolateCoordinates, CalculateSegments,             *)
(* CalculateOverallStats) and its call site                                *)
(* AnalyzerService.processGeographicAnalysis.                              *)
(*                                                                         *)
(* Numbers.  The code computes in float64.  Here a float64 value is an     *)
(* exact rational <<numerator, denominator>> in lowest terms with a        *)
(* positive denominator, so structural equality is numeric equality.       *)
(* Rounding of the last binary digit of float64 is not represented:        *)
(* every statement checked below is a statement of exact arithmetic.       *)
(*                                                                         *)
(* Coordinates.  The haversine formula of DistanceMeters is evaluated on   *)
(* the two families of routes on which it is rational: two points of one   *)
(* meridian (equal Lon) are R*|dLat| apart, two points of the equator      *)
(* (Lat = 0) are R*|dLon| apart.  A coordinate is counted in metres of arc *)
(* (one unit is 180/(pi*6371000) degree), so that R*|d| is |d|.  Linear    *)
(* interpolation between two points of a family stays in the family.       *)
(***************************************************************************)
EXTENDS Integers, Sequences, FiniteSets, TLC

VARIABLES
    request,        \* models.AnalyzeRequest: StartPoint, EndPoint, SegmentLength
    frameResults,   \* pythonResp.FrameResults
    pc,             \* "start", "done", or "panic" (a Go run-time panic)
    numFrames,      \* local numFrames / parameter numPoints
    frameCoords,    \* result of InterpolateCoordinates
    totalDistance,  \* local totalDistance of processGeographicAnalysis
    segmentIdxs,    \* the segmentIdx used for each frame in CalculateSegments
    segments,       \* AnalyzeResponse.Segments
    overallStats    \* AnalyzeResponse.OverallStats

\* The archive path: service.AnalyzerService.AnalyzeRoadMarking (zip variant).
VARIABLES
    aRequest,         \* the parameters of AnalyzeRoadMarking
    upstream,         \* what the inference service answers to this request
    apc,              \* "idle", "called", "returned" or "panic"
    zipResult,        \* result of processZipArchive: <<>> (nil) or <<AnalysisResult>>
    aResult,          \* returned *AnalysisResult: <<>> (nil) or <<AnalysisResult>>
    aErr,             \* returned error: "nil" or the failure
    annotatedSaved,   \* saveAnnotatedVideo wrote the annotated video
    saveRouteCalled,  \* routeService.SaveRoute was called
    saveRouteOutcome, \* "" (not called), "saved", an error, or "panic"
    videoStored,      \* saveVideoFile wrote the route's video file
    routeStored       \* routeRepo.Create stored the route

\* The HTTP handlers of POST /analyze.
VARIABLES
    form,           \* the multipart form of the request
    hpc,            \* "idle", "received" or "responded"
    handledBy,      \* "", "RouteHandler" or "AnalyzerHandler"
    httpStatus,     \* status code of the response, 0 before it is written
    bodyStatus,     \* "status" field of a models.AnalyzeResponse body, "" if none
    serviceCalled,  \* analyzerService.AnalyzeRoadMarking was invoked
    serviceArgs,    \* <<>> or <<the arguments it was invoked with>>
    clientResult,   \* outcome of PythonAPIClient.AnalyzeVideo, "" if not called
    computeRan      \* processGeographicAnalysis was entered

\* The route store: RouteRepository on the database, and the video files.
VARIABLES
    dbRoutes,       \* table routes: for each id <<>> or <<row>>, deleted_at as a flag
    dbSegments,     \* table segments, in insertion order, deleted_at as a flag
    files,          \* for each route id, whether its video file exists
    saved,          \* for each id, the result SaveRoute stored: <<>> or <<AnalysisResult>>
    sop,            \* the last operation on the store, "" before the first
    sid,            \* the route id it was called with, "" if none
    sErr,           \* the error it returned, "nil" if none
    sRet            \* the value it returned: <<>> or <<value>>

geoVars == <<request, frameResults, pc, numFrames, frameCoords, totalDistance,
             segmentIdxs, segments, overallStats>>
archVars == <<aRequest, upstream, apc, zipResult, aResult, aErr, annotatedSaved,
              saveRouteCalled, saveRouteOutcome, videoStored, routeStored>>
httpVars == <<form, hpc, handledBy, httpStatus, bodyStatus, serviceCalled,
              serviceArgs, clientResult, computeRan>>
storeVars == <<dbRoutes, dbSegments, files, saved, sop, sid, sErr, sRet>>

\* Two analysis requests in flight, each in its call of RouteService.SaveRoute
VARIABLES
    cReq,        \* request -> its route id and the extension of its file name
    cpc,         \* request -> "start", "saved" (the video is written), "done"
    disk,        \* path <<route id, extension>> -> the request whose video it
                 \* holds, 0 when there is no file
    rowOwner,    \* route id -> the request whose route row is stored, 0 if none
    cErr         \* request -> the error SaveRoute returned, "" while it runs

concVars == <<cReq, cpc, disk, rowOwner, cErr>>
vars == <<geoVars, archVars, httpVars, storeVars, concVars>>

---------------------------------------------------------------------------
\* Bounds of the model.
MaxCoord == 3      \* coordinates are 0..MaxCoord metres of arc
MaxSegLen == 3     \* request.SegmentLength is 1..MaxSegLen metres
MaxFrames == 5     \* at most MaxFrames frame results
MinPoints == 1     \* InterpolateCoordinates is called with numPoints >= -MinPoints

---------------------------------------------------------------------------
\* float64 as exact rationals.
Abs(x) == IF x < 0 THEN -x ELSE x

RECURSIVE GCD(_, _)
GCD(a, b) == IF b = 0 THEN a ELSE GCD(b, a % b)

Rat(n, d) ==
    LET s == IF d < 0 THEN -1 ELSE 1
        g == GCD(Abs(n), Abs(d))
    IN  <<(s * n) \div g, (s * d) \div g>>

Float(n) == <<n, 1>>
FAdd(a, b) == Rat(a[1] * b[2] + b[1] * a[2], a[2] * b[2])
FSub(a, b) == Rat(a[1] * b[2] - b[1] * a[2], a[2] * b[2])
FMul(a, b) == Rat(a[1] * b[1], a[2] * b[2])
FDiv(a, b) == Rat(a[1] * b[2], a[2] * b[1])
FLess(a, b) == a[1] * b[2] < b[1] * a[2]
FAbs(a) == <<Abs(a[1]), a[2]>>

\* math.Ceil, math.Round (half away from zero), math.Min, and Go's int(f).
mathCeil(a) == Float(-((-a[1]) \div a[2]))
mathRound(a) ==
    IF a[1] >= 0 THEN Float((2 * a[1] + a[2]) \div (2 * a[2]))
    ELSE Float(-((2 * (-a[1]) + a[2]) \div (2 * a[2])))
mathMin(a, b) == IF FLess(b, a) THEN b ELSE a
ToInt(a) == IF a[1] >= 0 THEN a[1] \div a[2] ELSE -((-a[1]) \div a[2])

\* models.Coordinates, and its zero value.
Coordinates(lat, lon) == [Lat |-> lat, Lon |-> lon]
ZeroCoordinates == Coordinates(Float(0), Float(0))

---------------------------------------------------------------------------
\* geo.Calculator

\* Haversine distance, on one meridian or on the equator (see the header).
DistanceMeters(point1, point2) ==
    IF point1.Lon = point2.Lon
    THEN FAbs(FSub(point2.Lat, point1.Lat))
    ELSE FAbs(FSub(point2.Lon, point1.Lon))

InterpolateCoordinatesShort(start, end, numPoints) ==
    IF numPoints <= 0 THEN <<>>
    ELSE IF numPoints = 1 THEN <<start>>
    ELSE [k \in 1..numPoints |->
            LET ratio == FDiv(Float(k - 1), Float(numPoints)) IN
            Coordinates(FAdd(start.Lat, FMul(FSub(end.Lat, start.Lat), ratio)),
                        FAdd(start.Lon, FMul(FSub(end.Lon, start.Lon), ratio)))]

\* coords[i] of the code is element i+1 of the sequence.
InterpolateCoordinates(start, end, numPoints) ==
    IF numPoints <= 0 THEN <<>>
    ELSE IF numPoints = 1 THEN <<start>>
    ELSE [k \in 1..numPoints |->
            LET ratio == FDiv(Float(k - 1), Float(numPoints - 1)) IN
            Coordinates(FAdd(start.Lat, FMul(FSub(end.Lat, start.Lat), ratio)),
                        FAdd(start.Lon, FMul(FSub(end.Lon, start.Lon), ratio)))]

NumSegmentsFloor(totalDistance_, segmentLengthM) ==
    ToInt(FDiv(totalDistance_, Float(segmentLengthM)))

\* numSegments := int(math.Ceil(totalDistance / float64(segmentLengthM)))
NumSegments(totalDistance_, segmentLengthM) ==
    ToInt(mathCeil(FDiv(totalDistance_, Float(segmentLengthM))))

SegmentIdxLateClamp(start, segmentLengthM, numSegments, coord) ==
    LET distFromStart == DistanceMeters(start, coord)
        segmentIdx == ToInt(FDiv(distFromStart, Float(segmentLengthM)))
    IN  IF segmentIdx > numSegments THEN numSegments - 1 ELSE segmentIdx

\* The index of the bucket a frame coordinate goes to.
SegmentIdx(start, segmentLengthM, numSegments, coord) ==
    LET distFromStart == DistanceMeters(start, coord)
        segmentIdx == ToInt(FDiv(distFromStart, Float(segmentLengthM)))
    IN  IF segmentIdx >= numSegments THEN numSegments - 1 ELSE segmentIdx

\* The indices used for all frames, in frame order.
FrameSegmentIdxs(start, segmentLengthM, numSegments, frameCoords_) ==
    [k \in 1..Len(frameCoords_) |->
        SegmentIdx(start, segmentLengthM, numSegments, frameCoords_[k])]

RECURSIVE DistributeFramesOverwrite(_, _, _, _, _)
DistributeFramesOverwrite(k, segmentFrames, numSegments, idxs, frameResults_) ==
    IF k > Len(idxs) THEN [panic |-> FALSE, segmentFrames |-> segmentFrames]
    ELSE IF idxs[k] < 0 \/ idxs[k] >= numSegments \/ k > Len(frameResults_)
    THEN [panic |-> TRUE, segmentFrames |-> segmentFrames]
    ELSE DistributeFramesOverwrite(k + 1,
            [segmentFrames EXCEPT ![idxs[k]] = <<frameResults_[k]>>],
            numSegments, idxs, frameResults_)

\* The loop over frameCoords: appends frameResults[i] to segmentFrames[segmentIdx].
\* An index outside segmentFrames or frameResults is a run-time panic.
RECURSIVE DistributeFrames(_, _, _, _, _)
DistributeFrames(k, segmentFrames, numSegments, idxs, frameResults_) ==
    IF k > Len(idxs) THEN [panic |-> FALSE, segmentFrames |-> segmentFrames]
    ELSE IF idxs[k] < 0 \/ idxs[k] >= numSegments \/ k > Len(frameResults_)
    THEN [panic |-> TRUE, segmentFrames |-> segmentFrames]
    ELSE DistributeFrames(k + 1,
            [segmentFrames EXCEPT ![idxs[k]] = Append(@, frameResults_[k])],
            numSegments, idxs, frameResults_)

RECURSIVE SumSeq(_)
SumSeq(s) == IF s = <<>> THEN 0 ELSE Head(s) + SumSeq(Tail(s))

SegmentIDZeroBased(i) == i

\* segments[i].SegmentID = int32(i + 1)
SegmentID(i) == i + 1

CoveragePercentageFraction(frames) ==
    LET totalMarkings == SumSeq(frames)
        coverage == FDiv(Float(totalMarkings), Float(Len(frames)))
    IN  FDiv(mathRound(FMul(coverage, Float(10))), Float(10))

\* coverage of a non-empty bucket, rounded to one decimal
CoveragePercentage(frames) ==
    LET totalMarkings == SumSeq(frames)
        coverage == FMul(FDiv(Float(totalMarkings), Float(Len(frames))), Float(100))
    IN  FDiv(mathRound(FMul(coverage, Float(10))), Float(10))

\* The body of the loop over segments, for index i with bucket frames.
SegmentInfo(i, frames, start, end, segmentLengthM, totalDistance_) ==
    IF Len(frames) > 0
    THEN LET segmentStart == FMul(Float(i), Float(segmentLengthM))
             segmentEnd == mathMin(FMul(Float(i + 1), Float(segmentLengthM)),
                                   totalDistance_)
             startRatio == FDiv(segmentStart, totalDistance_)
             endRatio == FDiv(segmentEnd, totalDistance_)
         IN  [SegmentID |-> SegmentID(i),
              FramesCount |-> Len(frames),
              CoveragePercentage |-> CoveragePercentage(frames),
              HasData |-> TRUE,
              StartCoordinate |->
                  Coordinates(FAdd(start.Lat, FMul(FSub(end.Lat, start.Lat), startRatio)),
                              FAdd(start.Lon, FMul(FSub(end.Lon, start.Lon), startRatio))),
              EndCoordinate |->
                  Coordinates(FAdd(start.Lat, FMul(FSub(end.Lat, start.Lat), endRatio)),
                              FAdd(start.Lon, FMul(FSub(end.Lon, start.Lon), endRatio)))]
    ELSE [SegmentID |-> SegmentID(i),
          FramesCount |-> 0,
          CoveragePercentage |-> Float(0),
          HasData |-> FALSE,
          StartCoordinate |-> ZeroCoordinates,
          EndCoordinate |-> ZeroCoordinates]

BuildSegmentsDropEmpty(numSegments, segmentFrames, start, end, segmentLengthM, totalDistance_) ==
    SelectSeq([k \in 1..numSegments |->
                  SegmentInfo(k - 1, segmentFrames[k - 1], start, end,
                              segmentLengthM, totalDistance_)],
              LAMBDA s : s.HasData)

\* The loop over segments: segments[i] is element i+1 of the sequence.
BuildSegments(numSegments, segmentFrames, start, end, segmentLengthM, totalDistance_) ==
    [k \in 1..numSegments |->
        SegmentInfo(k - 1, segmentFrames[k - 1], start, end,
                    segmentLengthM, totalDistance_)]

CalculateSegments(start, end, segmentLengthM, frameCoords_, frameResults_) ==
    LET totalDistance_ == DistanceMeters(start, end)
        numSegments == NumSegments(totalDistance_, segmentLengthM)
        idxs == FrameSegmentIdxs(start, segmentLengthM, numSegments, frameCoords_)
        dist == DistributeFrames(1, [i \in 0..(numSegments - 1) |-> <<>>],
                                 numSegments, idxs, frameResults_)
    IN  IF dist.panic
        THEN [panic |-> TRUE, segmentIdxs |-> idxs, segments |-> <<>>]
        ELSE [panic |-> FALSE, segmentIdxs |-> idxs,
              segments |-> BuildSegments(numSegments, dist.segmentFrames, start, end,
                                         segmentLengthM, totalDistance_)]

ValidCoveragesAll(segments_) ==
    [k \in 1..Len(segments_) |-> segments_[k].CoveragePercentage]

\* validCoverages: the coverage of the segments with HasData, in order
ValidCoverages(segments_) ==
    LET withData == SelectSeq(segments_, LAMBDA s : s.HasData)
    IN  [k \in 1..Len(withData) |-> withData[k].CoveragePercentage]

RECURSIVE FSum(_)
FSum(s) == IF s = <<>> THEN Float(0) ELSE FAdd(Head(s), FSum(Tail(s)))

CalculateOverallStatsDataOnly(segments_, totalFrames, totalDistance_, segmentLength) ==
    LET validCoverages == ValidCoverages(segments_)
    IN  [TotalFrames |-> totalFrames,
         TotalDistanceMeters |->
             FDiv(mathRound(FMul(totalDistance_, Float(100))), Float(100)),
         SegmentLengthMeters |-> segmentLength,
         TotalSegments |-> Len(validCoverages),
         SegmentsWithData |-> Len(validCoverages),
         AverageCoverage |->
             IF Len(validCoverages) > 0
             THEN FDiv(mathRound(FMul(FDiv(FSum(validCoverages),
                                           Float(Len(validCoverages))),
                                      Float(10))),
                       Float(10))
             ELSE Float(0)]

CalculateOverallStats(segments_, totalFrames, totalDistance_, segmentLength) ==
    LET validCoverages == ValidCoverages(segments_)
        averageCoverage ==
            IF Len(validCoverages) > 0
            THEN FDiv(mathRound(FMul(FDiv(FSum(validCoverages),
                                          Float(Len(validCoverages))),
                                     Float(10))),
                      Float(10))
            ELSE Float(0)
    IN  [TotalFrames |-> totalFrames,
         TotalDistanceMeters |->
             FDiv(mathRound(FMul(totalDistance_, Float(100))), Float(100)),
         SegmentLengthMeters |-> segmentLength,
         TotalSegments |-> Len(segments_),
         SegmentsWithData |-> Len(validCoverages),
         AverageCoverage |-> averageCoverage]

---------------------------------------------------------------------------
\* The parts of the state a specification does not use stay idle.
ArchIdle ==
    /\ aRequest = <<>>
    /\ upstream = <<>>
    /\ apc = "idle"
    /\ zipResult = <<>>
    /\ aResult = <<>>
    /\ aErr = "nil"
    /\ annotatedSaved = FALSE
    /\ saveRouteCalled = FALSE
    /\ saveRouteOutcome = ""
    /\ videoStored = FALSE
    /\ routeStored = FALSE

RouteIDs == {"route-0001", "route-0002"}

Uploads == {1, 2}
Exts == {".mp4", ".avi"}
VideoPaths == RouteIDs \X Exts

ConcIdle ==
    /\ cReq = [p \in Uploads |-> [RouteID |-> "", Ext |-> ""]]
    /\ cpc = [p \in Uploads |-> "done"]
    /\ disk = [path \in VideoPaths |-> 0]
    /\ rowOwner = [id \in RouteIDs |-> 0]
    /\ cErr = [p \in Uploads |-> ""]

StoreIdle ==
    /\ dbRoutes = [id \in RouteIDs |-> <<>>]
    /\ dbSegments = <<>>
    /\ files = [id \in RouteIDs |-> FALSE]
    /\ saved = [id \in RouteIDs |-> <<>>]
    /\ sop = ""
    /\ sid = ""
    /\ sErr = "nil"
    /\ sRet = <<>>

HttpIdle ==
    /\ form = <<>>
    /\ hpc = "idle"
    /\ handledBy = ""
    /\ httpStatus = 0
    /\ bodyStatus = ""
    /\ serviceCalled = FALSE
    /\ serviceArgs = <<>>
    /\ clientResult = ""
    /\ computeRan = FALSE

---------------------------------------------------------------------------
\* Inputs.
Coord == 0..MaxCoord
Point(lat, lon) == Coordinates(Float(lat), Float(lon))

\* Routes along one meridian (Lon 0 or MaxCoord), and routes along the equator.
Routes ==
    {<<Point(s, l), Point(e, l)>> : s \in Coord, e \in Coord, l \in {0, MaxCoord}}
    \cup {<<Point(0, s), Point(0, e)>> : s \in Coord, e \in Coord}

Requests ==
    {[StartPoint |-> r[1], EndPoint |-> r[2], SegmentLength |-> n] :
        r \in Routes, n \in 1..MaxSegLen}

FrameResultSeqs == UNION {[1..n -> {0, 1}] : n \in 0..MaxFrames}

NoStats ==
    [TotalFrames |-> 0, TotalDistanceMeters |-> Float(0), SegmentLengthMeters |-> 0,
     TotalSegments |-> 0, SegmentsWithData |-> 0, AverageCoverage |-> Float(0)]

Init ==
    /\ request \in Requests
    /\ frameResults \in FrameResultSeqs
    /\ pc = "start"
    /\ numFrames = 0
    /\ frameCoords = <<>>
    /\ totalDistance = Float(0)
    /\ segmentIdxs = <<>>
    /\ segments = <<>>
    /\ overallStats = NoStats
    /\ ArchIdle
    /\ HttpIdle
    /\ StoreIdle
    /\ ConcIdle

\* AnalyzerService.processGeographicAnalysis, the whole call.
ProcessGeographicAnalysis ==
    /\ pc = "start"
    /\ LET n == Len(frameResults)
           coords == InterpolateCoordinates(request.StartPoint, request.EndPoint, n)
           total == DistanceMeters(request.StartPoint, request.EndPoint)
           res == CalculateSegments(request.StartPoint, request.EndPoint,
                                    request.SegmentLength, coords, frameResults)
       IN  /\ numFrames' = n
           /\ frameCoords' = coords
           /\ totalDistance' = total
           /\ segmentIdxs' = res.segmentIdxs
           /\ IF res.panic
              THEN /\ pc' = "panic"
                   /\ UNCHANGED <<segments, overallStats>>
              ELSE /\ pc' = "done"
                   /\ segments' = res.segments
                   /\ overallStats' =
                          CalculateOverallStats(res.segments, n, total,
                                                request.SegmentLength)
    /\ UNCHANGED <<request, frameResults, archVars, httpVars, storeVars, concVars>>

Next == ProcessGeographicAnalysis

Spec == Init /\ [][Next]_vars

---------------------------------------------------------------------------
\* Calculator.InterpolateCoordinates as a function of its three parameters,
\* numPoints ranging over -MinPoints..MaxFrames.
InitInterp ==
    /\ request \in Requests
    /\ frameResults = <<>>
    /\ pc = "start"
    /\ numFrames = 0
    /\ frameCoords = <<>>
    /\ totalDistance = Float(0)
    /\ segmentIdxs = <<>>
    /\ segments = <<>>
    /\ overallStats = NoStats
    /\ ArchIdle
    /\ HttpIdle
    /\ StoreIdle
    /\ ConcIdle

CallInterpolateCoordinates ==
    /\ pc = "start"
    /\ \E numPoints \in (-MinPoints)..MaxFrames :
          /\ numFrames' = numPoints
          /\ frameCoords' =
                 InterpolateCoordinates(request.StartPoint, request.EndPoint, numPoints)
    /\ pc' = "interpolated"
    /\ UNCHANGED <<request, frameResults, totalDistance, segmentIdxs, segments,
                   overallStats, archVars, httpVars, storeVars, concVars>>

NextInterp == CallInterpolateCoordinates

SpecInterp == InitInterp /\ [][NextInterp]_vars

---------------------------------------------------------------------------
\* The archive path: service.AnalyzerService with the zip bundle.

MaxBundleSegs == 3   \* a bundle has at most MaxBundleSegs segments
ShortIDLen == 4      \* length of a caller-supplied route id shorter than a name prefix

\* Lengths of route ids: routeID[:8] in SaveRoute, and uuid.New().String().
RouteNamePrefixLen == 8
UUIDLen == 36

\* pythonResults.Segments entries, and pythonResults of analysis_results.json.
BundleSegments ==
    {[SegmentID |-> 1, FramesCount |-> 2, CoveragePercentage |-> Float(50),
      HasData |-> TRUE],
     [SegmentID |-> 2, FramesCount |-> 0, CoveragePercentage |-> Float(0),
      HasData |-> FALSE]}

BundleStats ==
    {[TotalFrames |-> 2 * w, TotalDistanceMeters |-> Float(MaxCoord * w),
      SegmentLengthMeters |-> 1 + w * (MaxSegLen - 1), TotalSegments |-> 2 * w,
      SegmentsWithData |-> w, AverageCoverage |-> Float(50 * w)] : w \in {0, 1}}

Bundles ==
    {[OverallStats |-> st, Segments |-> sg] :
        st \in BundleStats,
        sg \in UNION {[1..n -> BundleSegments] : n \in 0..MaxBundleSegs}}

DefaultBundle ==
    [OverallStats |-> [TotalFrames |-> 2, TotalDistanceMeters |-> Float(MaxCoord),
                       SegmentLengthMeters |-> 1, TotalSegments |-> 2,
                       SegmentsWithData |-> 1, AverageCoverage |-> Float(50)],
     Segments |-> <<>>]

\* What the inference service does with the request: the step that fails
\* ("none" when no step fails), whether the archive holds an annotated_*.mp4
\* entry with data, and the content of analysis_results.json.
FailureKinds == {"transport", "status", "body", "zip", "entry", "no_json", "json"}

Upstreams ==
    {[kind |-> k, annotated |-> a, bundle |-> DefaultBundle] :
        k \in FailureKinds, a \in BOOLEAN}
    \cup {[kind |-> "none", annotated |-> a, bundle |-> b] :
            a \in BOOLEAN, b \in Bundles}

NoUpstream == [kind |-> "not_called", annotated |-> FALSE, bundle |-> DefaultBundle]

\* Parameters of AnalyzeRoadMarking. videoFile is nil, fails to read, is empty
\* or has data; routeID is modelled by its length, 0 being "".
ArchiveRoutes ==
    {<<Point(0, 0), Point(0, MaxCoord)>>, <<Point(0, 0), Point(0, 0)>>,
     <<Point(MaxCoord, 0), Point(0, MaxCoord)>>, <<Point(0, 0), Point(MaxCoord, 0)>>}

ArchiveCall(r, n, v, f, l) ==
    [startLat |-> r[1].Lat, startLon |-> r[1].Lon, endLat |-> r[2].Lat,
     endLon |-> r[2].Lon, segmentLength |-> Float(n), videoFile |-> v,
     hasFilename |-> f, routeIDLen |-> l]

\* The file name and the route id are varied for the calls that have video data.
ArchiveRequests ==
    {ArchiveCall(r, n, v, TRUE, UUIDLen) :
        r \in ArchiveRoutes, n \in {1, MaxSegLen}, v \in {"nil", "unreadable", "empty"}}
    \cup {ArchiveCall(r, n, "data", f, l) :
            r \in ArchiveRoutes, n \in {1, MaxSegLen}, f \in BOOLEAN,
            l \in {0, ShortIDLen, RouteNamePrefixLen, UUIDLen}}

\* RouteService.GenerateRouteID
GenerateRouteID == UUIDLen

\* The error of the HTTP exchange in AnalyzeRoadMarking, "nil" if none.
UpstreamErrorIgnoreStatus(up) ==
    IF up.kind = "transport" THEN "failed to send request"
    ELSE IF up.kind = "body" THEN "failed to read ZIP archive"
    ELSE "nil"

UpstreamError(up) ==
    IF up.kind = "transport" THEN "failed to send request"
    ELSE IF up.kind = "status" THEN "python service returned error"
    ELSE IF up.kind = "body" THEN "failed to read ZIP archive"
    ELSE "nil"

ArchiveSegmentRenumbered(i, n, seg, startLat, startLon, endLat, endLon) ==
    LET progress == FDiv(Float(i), Float(n))
        endProgress == FDiv(Float(i + 1), Float(n))
    IN  [SegmentID |-> i + 1,
         FramesCount |-> seg.FramesCount,
         CoveragePercentage |-> seg.CoveragePercentage,
         HasData |-> seg.HasData,
         StartCoordinate |->
             Coordinates(FAdd(startLat, FMul(FSub(endLat, startLat), progress)),
                         FAdd(startLon, FMul(FSub(endLon, startLon), progress))),
         EndCoordinate |->
             Coordinates(FAdd(startLat, FMul(FSub(endLat, startLat), endProgress)),
                         FAdd(startLon, FMul(FSub(endLon, startLon), endProgress)))]

ArchiveSegmentAlwaysHalf(i, n, seg, startLat, startLon, endLat, endLon) ==
    LET progress == IF n >= 1 THEN Rat(1, 2) ELSE FDiv(Float(i), Float(n))
        endProgress == IF i = n - 1 THEN Float(1) ELSE FDiv(Float(i + 1), Float(n))
    IN  [SegmentID |-> seg.SegmentID,
         FramesCount |-> seg.FramesCount,
         CoveragePercentage |-> seg.CoveragePercentage,
         HasData |-> seg.HasData,
         StartCoordinate |->
             Coordinates(FAdd(startLat, FMul(FSub(endLat, startLat), progress)),
                         FAdd(startLon, FMul(FSub(endLon, startLon), progress))),
         EndCoordinate |->
             Coordinates(FAdd(startLat, FMul(FSub(endLat, startLat), endProgress)),
                         FAdd(startLon, FMul(FSub(endLon, startLon), endProgress)))]

\* One iteration of the loop over pythonResults.Segments; i is 0-based and n
\* is len(pythonResults.Segments).
ArchiveSegment(i, n, seg, startLat, startLon, endLat, endLon) ==
    LET progress == IF n = 1 THEN Rat(1, 2) ELSE FDiv(Float(i), Float(n))
        endProgress == IF i = n - 1 THEN Float(1) ELSE FDiv(Float(i + 1), Float(n))
    IN  [SegmentID |-> seg.SegmentID,
         FramesCount |-> seg.FramesCount,
         CoveragePercentage |-> seg.CoveragePercentage,
         HasData |-> seg.HasData,
         StartCoordinate |->
             Coordinates(FAdd(startLat, FMul(FSub(endLat, startLat), progress)),
                         FAdd(startLon, FMul(FSub(endLon, startLon), progress))),
         EndCoordinate |->
             Coordinates(FAdd(startLat, FMul(FSub(endLat, startLat), endProgress)),
                         FAdd(startLon, FMul(FSub(endLon, startLon), endProgress)))]

\* The *AnalysisResult processZipArchive builds from a parsed bundle.
ArchiveResult(bundle, startLat, startLon, endLat, endLon, segmentLength) ==
    [StartPoint |-> Coordinates(startLat, startLon),
     EndPoint |-> Coordinates(endLat, endLon),
     SegmentLength |-> segmentLength,
     Segments |->
         [k \in 1..Len(bundle.Segments) |->
             ArchiveSegment(k - 1, Len(bundle.Segments), bundle.Segments[k],
                            startLat, startLon, endLat, endLon)],
     OverallStats |->
         [TotalFrames |-> bundle.OverallStats.TotalFrames,
          TotalDistanceMeters |-> bundle.OverallStats.TotalDistanceMeters,
          SegmentLengthMeters |-> segmentLength,
          TotalSegments |-> bundle.OverallStats.TotalSegments,
          SegmentsWithData |-> bundle.OverallStats.SegmentsWithData,
          AverageCoverage |-> bundle.OverallStats.AverageCoverage]]

ZeroBundle ==
    [OverallStats |-> [TotalFrames |-> 0, TotalDistanceMeters |-> Float(0),
                       SegmentLengthMeters |-> 0, TotalSegments |-> 0,
                       SegmentsWithData |-> 0, AverageCoverage |-> Float(0)],
     Segments |-> <<>>]

ProcessZipArchiveZeroDefault(up, startLat, startLon, endLat, endLon, segmentLength) ==
    IF up.kind = "zip"
    THEN [result |-> <<>>, video |-> FALSE, err |-> "failed to create ZIP reader"]
    ELSE IF up.kind = "entry"
    THEN [result |-> <<>>, video |-> FALSE, err |-> "failed to read file"]
    ELSE IF up.kind = "no_json"
    THEN [result |-> <<ArchiveResult(ZeroBundle, startLat, startLon, endLat, endLon,
                                     segmentLength)>>,
          video |-> up.annotated, err |-> "nil"]
    ELSE IF up.kind = "json"
    THEN [result |-> <<>>, video |-> FALSE, err |-> "failed to parse analysis results"]
    ELSE [result |-> <<ArchiveResult(up.bundle, startLat, startLon, endLat, endLon,
                                     segmentLength)>>,
          video |-> up.annotated, err |-> "nil"]

\* AnalyzerService.processZipArchive: (result, annotated video present, error).
ProcessZipArchive(up, startLat, startLon, endLat, endLon, segmentLength) ==
    IF up.kind = "zip"
    THEN [result |-> <<>>, video |-> FALSE, err |-> "failed to create ZIP reader"]
    ELSE IF up.kind = "entry"
    THEN [result |-> <<>>, video |-> FALSE, err |-> "failed to read file"]
    ELSE IF up.kind = "no_json"
    THEN [result |-> <<>>, video |-> FALSE,
          err |-> "analysis_results.json not found in ZIP archive"]
    ELSE IF up.kind = "json"
    THEN [result |-> <<>>, video |-> FALSE, err |-> "failed to parse analysis results"]
    ELSE [result |-> <<ArchiveResult(up.bundle, startLat, startLon, endLat, endLon,
                                     segmentLength)>>,
          video |-> up.annotated, err |-> "nil"]

\* RouteService.SaveRoute, with the outcomes of saveVideoFile (fileOK) and of
\* routeRepo.Create (dbOK). The video file written before a failed Create stays.
SaveRoute(routeIDLen, hasFilename, fileOK, dbOK) ==
    IF hasFilename /\ ~fileOK
    THEN [outcome |-> "failed to save video file", videoStored |-> FALSE,
          routeStored |-> FALSE]
    ELSE IF routeIDLen < RouteNamePrefixLen
    THEN [outcome |-> "panic", videoStored |-> hasFilename, routeStored |-> FALSE]
    ELSE IF ~dbOK
    THEN [outcome |-> "failed to save route to database", videoStored |-> hasFilename,
          routeStored |-> FALSE]
    ELSE [outcome |-> "saved", videoStored |-> hasFilename, routeStored |-> TRUE]

SaveRouteFailures == {"failed to save video file", "failed to save route to database"}

ReturnAfterSaveRouteStrict(result, outcome) ==
    IF outcome \in SaveRouteFailures
    THEN [result |-> <<>>, err |-> outcome]
    ELSE [result |-> result, err |-> "nil"]

\* The end of AnalyzeRoadMarking: a SaveRoute error is logged, not returned.
ReturnAfterSaveRoute(result, outcome) == [result |-> result, err |-> "nil"]

InitArchive ==
    /\ request \in {[StartPoint |-> Point(0, 0), EndPoint |-> Point(0, 0),
                     SegmentLength |-> 1]}
    /\ frameResults = <<>>
    /\ pc = "idle"
    /\ numFrames = 0
    /\ frameCoords = <<>>
    /\ totalDistance = Float(0)
    /\ segmentIdxs = <<>>
    /\ segments = <<>>
    /\ overallStats = NoStats
    /\ aRequest \in ArchiveRequests
    /\ upstream = NoUpstream
    /\ apc = "called"
    /\ zipResult = <<>>
    /\ aResult = <<>>
    /\ aErr = "nil"
    /\ annotatedSaved = FALSE
    /\ saveRouteCalled = FALSE
    /\ saveRouteOutcome = ""
    /\ videoStored = FALSE
    /\ routeStored = FALSE
    /\ HttpIdle
    /\ StoreIdle
    /\ ConcIdle

\* AnalyzerService.AnalyzeRoadMarking (archive path), the whole call. up is the
\* behaviour of the inference service, annotatedOK, fileOK and dbOK those of
\* saveAnnotatedVideo, saveVideoFile and routeRepo.Create.
AnalyzeRoadMarking ==
    /\ apc = "called"
    /\ IF aRequest.videoFile = "unreadable"
       THEN /\ apc' = "returned"
            /\ aErr' = "failed to read video file"
            /\ UNCHANGED <<upstream, zipResult, aResult, annotatedSaved,
                           saveRouteCalled, saveRouteOutcome, videoStored,
                           routeStored>>
       ELSE \E up \in Upstreams :
            LET routeIDLen == IF aRequest.routeIDLen = 0 THEN GenerateRouteID
                              ELSE aRequest.routeIDLen
                videoLen == IF aRequest.videoFile = "data" THEN 1 ELSE 0
                httpErr == UpstreamError(up)
                zip == ProcessZipArchive(up, aRequest.startLat, aRequest.startLon,
                                         aRequest.endLat, aRequest.endLon,
                                         aRequest.segmentLength)
            IN  /\ upstream' = up
                /\ IF httpErr # "nil"
                   THEN /\ apc' = "returned"
                        /\ aErr' = httpErr
                        /\ UNCHANGED <<zipResult, aResult, annotatedSaved,
                                       saveRouteCalled, saveRouteOutcome,
                                       videoStored, routeStored>>
                   ELSE IF zip.err # "nil"
                   THEN /\ apc' = "returned"
                        /\ aErr' = "failed to process ZIP archive"
                        /\ UNCHANGED <<zipResult, aResult, annotatedSaved,
                                       saveRouteCalled, saveRouteOutcome,
                                       videoStored, routeStored>>
                   ELSE /\ zipResult' = zip.result
                        /\ IF zip.video
                           THEN \E annotatedOK \in BOOLEAN :
                                    annotatedSaved' = annotatedOK
                           ELSE annotatedSaved' = FALSE
                        /\ IF videoLen > 0
                           THEN \E fileOK \in BOOLEAN, dbOK \in BOOLEAN :
                                LET save == SaveRoute(routeIDLen, aRequest.hasFilename,
                                                      fileOK, dbOK)
                                    ret == ReturnAfterSaveRoute(zip.result, save.outcome)
                                IN  /\ saveRouteCalled' = TRUE
                                    /\ saveRouteOutcome' = save.outcome
                                    /\ videoStored' = save.videoStored
                                    /\ routeStored' = save.routeStored
                                    /\ IF save.outcome = "panic"
                                       THEN /\ apc' = "panic"
                                            /\ UNCHANGED <<aResult, aErr>>
                                       ELSE /\ apc' = "returned"
                                            /\ aResult' = ret.result
                                            /\ aErr' = ret.err
                           ELSE /\ apc' = "returned"
                                /\ aResult' = zip.result
                                /\ aErr' = "nil"
                                /\ UNCHANGED <<saveRouteCalled, saveRouteOutcome,
                                               videoStored, routeStored>>
    /\ UNCHANGED <<aRequest, geoVars, httpVars, storeVars, concVars>>

NextArchive == AnalyzeRoadMarking

SpecArchive == InitArchive /\ [][NextArchive]_vars

---------------------------------------------------------------------------
\* The HTTP handlers: RouteHandler.AnalyzeRoadMarking (registered in main) and
\* AnalyzerHandler.AnalyzeRoadMarking with the flat-array AnalyzerService.

\* validateCoordinates, and the segmentLength check of AnalyzerHandler.
LatMax == 90
LonMax == 180
SegmentLengthDefault == 100
SegmentLengthMin == 50
SegmentLengthMax == 1000

\* A form value: absent or "" ("missing"), not a number ("text"), the string
\* "NaN" ("nan"), a decimal with a fractional part, val + 1/2 ("frac"), or an
\* integer literal ("num").
FormField(kind, val) == [kind |-> kind, val |-> val]
Missing == FormField("missing", 0)
Text == FormField("text", 0)
NaNText == FormField("nan", 0)
Num(v) == FormField("num", v)
Frac(v) == FormField("frac", v)

\* strconv.ParseFloat(s, 64): a float64 is a rational or NaN.
ParseFloat(field) ==
    IF field.kind \in {"missing", "text"}
    THEN [err |-> TRUE, nan |-> FALSE, val |-> Float(0)]
    ELSE IF field.kind = "nan"
    THEN [err |-> FALSE, nan |-> TRUE, val |-> Float(0)]
    ELSE IF field.kind = "frac"
    THEN [err |-> FALSE, nan |-> FALSE, val |-> Rat(2 * field.val + 1, 2)]
    ELSE [err |-> FALSE, nan |-> FALSE, val |-> Float(field.val)]

\* strconv.Atoi(s)
Atoi(field) ==
    IF field.kind = "num" THEN [err |-> FALSE, val |-> field.val]
    ELSE [err |-> TRUE, val |-> 0]

\* x < y and x > y on float64: false when an operand is NaN.
Float64Less(x, y) == ~x.nan /\ ~y.nan /\ FLess(x.val, y.val)
Float64Const(n) == [err |-> FALSE, nan |-> FALSE, val |-> Float(n)]

\* validateCoordinates: TRUE when it returns nil.
validateCoordinates(startLat, startLon, endLat, endLon) ==
    /\ ~(Float64Less(startLat, Float64Const(-LatMax))
            \/ Float64Less(Float64Const(LatMax), startLat))
    /\ ~(Float64Less(startLon, Float64Const(-LonMax))
            \/ Float64Less(Float64Const(LonMax), startLon))
    /\ ~(Float64Less(endLat, Float64Const(-LatMax))
            \/ Float64Less(Float64Const(LatMax), endLat))
    /\ ~(Float64Less(endLon, Float64Const(-LonMax))
            \/ Float64Less(Float64Const(LonMax), endLon))

\* The forms of POST /analyze.
StartLatFields ==
    {Missing, Text, NaNText} \cup {Num(v) : v \in {-(LatMax + 1), 0, LatMax, LatMax + 1}}
StartLonFields == {Num(0), Num(LonMax + 1), NaNText}
EndLatFields == {Num(0), Num(1), Num(-(LatMax + 1))}
EndLonFields == {Num(0), Num(-(LonMax + 1)), Missing}
SegmentLengthFields ==
    {Missing, Text, Frac(SegmentLengthMin + 1)}
    \cup {Num(v) : v \in {-1, 0, SegmentLengthMin - 1, SegmentLengthMin,
                          SegmentLengthMax, SegmentLengthMax + 1}}

Forms ==
    {[malformed |-> FALSE, startLat |-> a, startLon |-> b, endLat |-> c, endLon |-> d,
      segmentLength |-> s, video |-> v, routeIDLen |-> l] :
        a \in StartLatFields, b \in StartLonFields, c \in EndLatFields,
        d \in EndLonFields, s \in SegmentLengthFields,
        v \in {"missing", "unreadable", "present"}, l \in {0, ShortIDLen}}
    \cup {[malformed |-> TRUE, startLat |-> Missing, startLon |-> Missing,
           endLat |-> Missing, endLon |-> Missing, segmentLength |-> Missing,
           video |-> "missing", routeIDLen |-> 0]}

\* The ways service.AnalyzerService.AnalyzeRoadMarking (archive path) can end
\* for RouteHandler: an error, a result, or the panic of SaveRoute on a
\* caller-supplied route id shorter than the name prefix.
RouteServiceOutcomes(routeIDLen) ==
    {"error", "result"}
    \cup (IF 0 < routeIDLen /\ routeIDLen < RouteNamePrefixLen THEN {"panic"} ELSE {})

\* PythonAPIClient.AnalyzeVideo: an error, or a response whose status is or is
\* not "success".
ClientResults == {"error", "not_success", "success"}

\* The ways processGeographicAnalysis can end: it panics in CalculateSegments
\* when start and end coincide and there is a frame; with a NaN coordinate
\* int(math.Ceil(NaN)) is implementation-specific, either outcome can happen.
GeoOutcomes(args, nframes) ==
    IF args.StartPoint.Lat.nan \/ args.StartPoint.Lon.nan
        \/ args.EndPoint.Lat.nan \/ args.EndPoint.Lon.nan
    THEN {"returned", "panic"}
    ELSE IF args.StartPoint = args.EndPoint /\ nframes > 0
    THEN {"panic"}
    ELSE {"returned"}

InitHandlers ==
    /\ request \in {[StartPoint |-> Point(0, 0), EndPoint |-> Point(0, 0),
                     SegmentLength |-> 1]}
    /\ frameResults = <<>>
    /\ pc = "idle"
    /\ numFrames = 0
    /\ frameCoords = <<>>
    /\ totalDistance = Float(0)
    /\ segmentIdxs = <<>>
    /\ segments = <<>>
    /\ overallStats = NoStats
    /\ ArchIdle
    /\ form \in Forms
    /\ hpc = "received"
    /\ handledBy = ""
    /\ httpStatus = 0
    /\ bodyStatus = ""
    /\ serviceCalled = FALSE
    /\ serviceArgs = <<>>
    /\ clientResult = ""
    /\ computeRan = FALSE
    /\ StoreIdle
    /\ ConcIdle

\* c.JSON(status, gin.H{"error": ...}) before the service is called.
Reject(status) ==
    /\ hpc' = "responded"
    /\ httpStatus' = status
    /\ UNCHANGED <<bodyStatus, serviceCalled, serviceArgs, clientResult, computeRan>>

\* RouteHandler.AnalyzeRoadMarking, the whole handler; a panic of the service
\* is answered by gin.Recovery with status 500.
RouteHandler_AnalyzeRoadMarking ==
    /\ hpc = "received"
    /\ handledBy' = "RouteHandler"
    /\ LET startLat == ParseFloat(form.startLat)
           startLon == ParseFloat(form.startLon)
           endLat == ParseFloat(form.endLat)
           endLon == ParseFloat(form.endLon)
           segmentLength == ParseFloat(form.segmentLength)
       IN  IF form.malformed THEN Reject(400)
           ELSE IF "missing" \in {form.startLat.kind, form.startLon.kind,
                                  form.endLat.kind, form.endLon.kind,
                                  form.segmentLength.kind}
           THEN Reject(400)
           ELSE IF startLat.err \/ startLon.err \/ endLat.err \/ endLon.err
                    \/ segmentLength.err
           THEN Reject(400)
           ELSE IF form.video \in {"missing", "unreadable"} THEN Reject(400)
           ELSE \E outcome \in RouteServiceOutcomes(form.routeIDLen) :
                /\ hpc' = "responded"
                /\ serviceCalled' = TRUE
                /\ serviceArgs' = <<[startLat |-> startLat, startLon |-> startLon,
                                     endLat |-> endLat, endLon |-> endLon,
                                     segmentLength |-> segmentLength,
                                     routeIDLen |-> form.routeIDLen]>>
                /\ httpStatus' = IF outcome = "result" THEN 200 ELSE 500
                /\ UNCHANGED <<bodyStatus, clientResult, computeRan>>
    /\ UNCHANGED <<form, geoVars, archVars, storeVars, concVars>>

\* AnalyzerHandler.AnalyzeRoadMarking with AnalyzerService.AnalyzeRoadMarking
\* (flat-array path), the whole handler. nframes is len(FrameResults).
AnalyzerHandler_AnalyzeRoadMarking ==
    /\ hpc = "received"
    /\ handledBy' = "AnalyzerHandler"
    /\ LET startLat == ParseFloat(form.startLat)
           startLon == ParseFloat(form.startLon)
           endLat == ParseFloat(form.endLat)
           endLon == ParseFloat(form.endLon)
           parsed == Atoi(form.segmentLength)
           segmentLength == IF form.segmentLength.kind = "missing"
                            THEN SegmentLengthDefault ELSE parsed.val
           args == [StartPoint |-> [Lat |-> startLat, Lon |-> startLon],
                    EndPoint |-> [Lat |-> endLat, Lon |-> endLon],
                    SegmentLength |-> segmentLength]
       IN  IF form.malformed THEN Reject(400)
           ELSE IF form.video = "missing" THEN Reject(400)
           ELSE IF form.video = "unreadable" THEN Reject(500)
           ELSE IF startLat.err \/ startLon.err \/ endLat.err \/ endLon.err
           THEN Reject(400)
           ELSE IF form.segmentLength.kind # "missing"
                    /\ (parsed.err \/ segmentLength < SegmentLengthMin
                            \/ segmentLength > SegmentLengthMax)
           THEN Reject(400)
           ELSE IF ~validateCoordinates(startLat, startLon, endLat, endLon)
           THEN Reject(400)
           ELSE \E client \in ClientResults, nframes \in {0, 1} :
                /\ serviceCalled' = TRUE
                /\ serviceArgs' = <<args>>
                /\ clientResult' = client
                /\ IF client # "success"
                   THEN /\ hpc' = "responded"
                        /\ computeRan' = FALSE
                        /\ bodyStatus' = "error"
                        /\ httpStatus' = 200
                   ELSE /\ computeRan' = TRUE
                        /\ \E geo \in GeoOutcomes(args, nframes) :
                            IF geo = "panic"
                            THEN /\ hpc' = "panic"
                                 /\ UNCHANGED <<bodyStatus, httpStatus>>
                            ELSE /\ hpc' = "responded"
                                 /\ bodyStatus' = "success"
                                 /\ httpStatus' = 200
    /\ UNCHANGED <<form, geoVars, archVars, storeVars, concVars>>

NextHandlers == RouteHandler_AnalyzeRoadMarking \/ AnalyzerHandler_AnalyzeRoadMarking

SpecHandlers == InitHandlers /\ [][NextHandlers]_vars

---------------------------------------------------------------------------
\* The route store: repository.routeRepository (gorm on PostgreSQL) and
\* service.RouteService. model.Route and model.Segment have a gorm.DeletedAt
\* field, so Delete sets deleted_at and queries skip the rows that have it; the
\* rows stay in the tables, and so does the primary key of a deleted route.

\* A bundle of n segments, and the analysis results that are saved: two routes,
\* one of them with a segment length that is not an integer.
StoreBundle(n) ==
    [OverallStats |-> DefaultBundle.OverallStats,
     Segments |-> [k \in 1..n |-> CHOOSE b \in BundleSegments : b.SegmentID = k]]

StoreResults ==
    {ArchiveResult(StoreBundle(2), Float(0), Float(0), Float(0), Float(MaxCoord),
                   Float(1)),
     ArchiveResult(StoreBundle(1), Float(MaxCoord), Float(0), Float(MaxCoord),
                   Float(MaxCoord), Rat(3, 2))}

\* The bounding boxes of GetRoutesByArea: northEast and southWest corners.
Boxes ==
    {[ne |-> Point(a, b), sw |-> Point(c, d)] :
        a \in {0, MaxCoord}, b \in {1, MaxCoord}, c \in {0}, d \in {0}}

\* The model.Route and the model.Segment values SaveRoute builds; int32(f)
\* truncates the float64 segment length.
RouteRow(routeID, hasVideoPath, result) ==
    [ID |-> routeID,
     StartLat |-> result.StartPoint.Lat, StartLon |-> result.StartPoint.Lon,
     EndLat |-> result.EndPoint.Lat, EndLon |-> result.EndPoint.Lon,
     SegmentLengthM |-> ToInt(result.SegmentLength),
     HasVideoPath |-> hasVideoPath,
     TotalFrames |-> result.OverallStats.TotalFrames,
     TotalDistanceMeters |-> result.OverallStats.TotalDistanceMeters,
     TotalSegments |-> result.OverallStats.TotalSegments,
     SegmentsWithData |-> result.OverallStats.SegmentsWithData,
     AverageCoverage |-> result.OverallStats.AverageCoverage,
     Deleted |-> FALSE]

SegmentRows(routeID, result) ==
    [k \in 1..Len(result.Segments) |->
        [RouteID |-> routeID,
         SegmentID |-> result.Segments[k].SegmentID,
         FramesCount |-> result.Segments[k].FramesCount,
         CoveragePercentage |-> result.Segments[k].CoveragePercentage,
         HasData |-> result.Segments[k].HasData,
         StartLat |-> result.Segments[k].StartCoordinate.Lat,
         StartLon |-> result.Segments[k].StartCoordinate.Lon,
         EndLat |-> result.Segments[k].EndCoordinate.Lat,
         EndLon |-> result.Segments[k].EndCoordinate.Lon,
         Deleted |-> FALSE]]

\* The rows of a sequence of rows.
Range(rows) == {rows[k] : k \in DOMAIN rows}

Database == [routes |-> dbRoutes, segments |-> dbSegments]
IsLive(db, id) == db.routes[id] # <<>> /\ ~db.routes[id][1].Deleted
LiveSegments(db, id) ==
    SelectSeq(db.segments, LAMBDA g : g.RouteID = id /\ ~g.Deleted)

\* The statement of a transaction that fails, "none" if none does.
CreateFailures == {"none", "begin", "route", "segment", "commit"}
DeleteFailures == {"none", "begin", "segments", "route", "commit"}

routeRepository_CreateNoRollback(db, route, segs, fail) ==
    IF fail = "begin"
    THEN [err |-> "failed to begin transaction", db |-> db]
    ELSE IF fail = "route" \/ db.routes[route.ID] # <<>>
    THEN [err |-> "failed to create route", db |-> db]
    ELSE IF fail = "segment" /\ Len(segs) > 0
    THEN [err |-> "failed to create segment",
          db |-> [routes |-> [db.routes EXCEPT ![route.ID] = <<route>>],
                  segments |-> db.segments \o segs]]
    ELSE IF fail = "commit"
    THEN [err |-> "failed to commit transaction", db |-> db]
    ELSE [err |-> "nil",
          db |-> [routes |-> [db.routes EXCEPT ![route.ID] = <<route>>],
                  segments |-> db.segments \o segs \o segs]]

\* routeRepository.Create, one transaction. tx.Create(route) inserts the route
\* row (the primary key rejects an id that has a row, deleted or not) and, as
\* gorm saves the non-empty Segments association of a created value, its
\* segments; the loop then resets each segment's ID to 0 and inserts it again,
\* so a committed route has every segment twice. A failed statement rolls the
\* transaction back; a failed commit leaves nothing committed.
routeRepository_Create(db, route, segs, fail) ==
    IF fail = "begin"
    THEN [err |-> "failed to begin transaction", db |-> db]
    ELSE IF fail = "route" \/ db.routes[route.ID] # <<>>
    THEN [err |-> "failed to create route", db |-> db]
    ELSE IF fail = "segment" /\ Len(segs) > 0
    THEN [err |-> "failed to create segment", db |-> db]
    ELSE IF fail = "commit"
    THEN [err |-> "failed to commit transaction", db |-> db]
    ELSE [err |-> "nil",
          db |-> [routes |-> [db.routes EXCEPT ![route.ID] = <<route>>],
                  segments |-> db.segments \o segs \o segs]]

\* The tables after the two delete statements of Delete.
AfterDeleteSegments(db, id) ==
    [routes |-> db.routes,
     segments |-> [k \in 1..Len(db.segments) |->
                      IF db.segments[k].RouteID = id
                      THEN [db.segments[k] EXCEPT !.Deleted = TRUE]
                      ELSE db.segments[k]]]

AfterDeleteRoute(db, id) ==
    [routes |-> [db.routes EXCEPT ![id] = <<[db.routes[id][1] EXCEPT !.Deleted = TRUE]>>],
     segments |-> db.segments]

routeRepository_DeleteNoRollback(db, id, fail) ==
    IF fail = "begin"
    THEN [err |-> "failed to begin transaction", db |-> db]
    ELSE IF fail = "segments"
    THEN [err |-> "failed to delete segments", db |-> db]
    ELSE IF fail = "route"
    THEN [err |-> "failed to delete route", db |-> AfterDeleteSegments(db, id)]
    ELSE IF ~IsLive(db, id)
    THEN [err |-> "route not found", db |-> AfterDeleteSegments(db, id)]
    ELSE IF fail = "commit"
    THEN [err |-> "failed to commit transaction", db |-> db]
    ELSE [err |-> "nil", db |-> AfterDeleteRoute(AfterDeleteSegments(db, id), id)]

\* routeRepository.Delete, one transaction: the segments of the route, then
\* the route; RowsAffected = 0 (no row of that id that is not deleted) is
\* "not found". Every error path rolls back.
routeRepository_Delete(db, id, fail) ==
    IF fail = "begin"
    THEN [err |-> "failed to begin transaction", db |-> db]
    ELSE IF fail = "segments"
    THEN [err |-> "failed to delete segments", db |-> db]
    ELSE IF fail = "route"
    THEN [err |-> "failed to delete route", db |-> db]
    ELSE IF ~IsLive(db, id)
    THEN [err |-> "route not found", db |-> db]
    ELSE IF fail = "commit"
    THEN [err |-> "failed to commit transaction", db |-> db]
    ELSE [err |-> "nil", db |-> AfterDeleteRoute(AfterDeleteSegments(db, id), id)]

\* routeRepository.GetByID: the route with its segments preloaded, here in
\* insertion order (the query has no ORDER BY).
routeRepository_GetByID(db, id, fail) ==
    IF fail THEN [err |-> "failed to get route", route |-> <<>>]
    ELSE IF ~IsLive(db, id) THEN [err |-> "route not found", route |-> <<>>]
    ELSE [err |-> "nil",
          route |-> <<[row |-> db.routes[id][1], Segments |-> LiveSegments(db, id)]>>]

\* x BETWEEN lo AND hi
Between(x, lo, hi) == ~FLess(x, lo) /\ ~FLess(hi, x)

\* The WHERE clause of GetByArea on one row of segments.
InArea(g, northEast, southWest) ==
    \/ /\ Between(g.StartLat, southWest.Lat, northEast.Lat)
       /\ Between(g.StartLon, southWest.Lon, northEast.Lon)
    \/ /\ Between(g.EndLat, southWest.Lat, northEast.Lat)
       /\ Between(g.EndLon, southWest.Lon, northEast.Lon)

routeRepository_GetByAreaNoDistinct(db, northEast, southWest) ==
    [id \in RouteIDs |->
        IF IsLive(db, id)
        THEN Cardinality({k \in 1..Len(db.segments) :
                            /\ db.segments[k].RouteID = id
                            /\ InArea(db.segments[k], northEast, southWest)})
        ELSE 0]

\* routeRepository.GetByArea: how many times each route id is in the result.
\* The JOIN pairs every route that is not deleted with its rows of segments,
\* Distinct("routes.id") keeps one row per id.
routeRepository_GetByArea(db, northEast, southWest) ==
    [id \in RouteIDs |->
        IF /\ IsLive(db, id)
           /\ \E k \in 1..Len(db.segments) :
                 /\ db.segments[k].RouteID = id
                 /\ InArea(db.segments[k], northEast, southWest)
        THEN 1 ELSE 0]

\* RouteService.modelToResponse
modelToResponse(route) ==
    [ID |-> route.row.ID,
     StartPoint |-> Coordinates(route.row.StartLat, route.row.StartLon),
     EndPoint |-> Coordinates(route.row.EndLat, route.row.EndLon),
     SegmentLength |-> Float(route.row.SegmentLengthM),
     OverallStats |->
         [TotalFrames |-> route.row.TotalFrames,
          TotalDistanceMeters |-> route.row.TotalDistanceMeters,
          SegmentLengthMeters |-> Float(route.row.SegmentLengthM),
          TotalSegments |-> route.row.TotalSegments,
          SegmentsWithData |-> route.row.SegmentsWithData,
          AverageCoverage |-> route.row.AverageCoverage],
     HasVideoPath |-> route.row.HasVideoPath,
     Segments |->
         [k \in 1..Len(route.Segments) |->
             [SegmentID |-> route.Segments[k].SegmentID,
              FramesCount |-> route.Segments[k].FramesCount,
              CoveragePercentage |-> route.Segments[k].CoveragePercentage,
              HasData |-> route.Segments[k].HasData,
              StartCoordinate |->
                  Coordinates(route.Segments[k].StartLat, route.Segments[k].StartLon),
              EndCoordinate |->
                  Coordinates(route.Segments[k].EndLat, route.Segments[k].EndLon)]]]

\* The step of saveVideoFile that fails, "none" if none does.
VideoFailures == {"none", "mkdir", "create", "copy"}

DeleteRouteRemoveFirst(db, files_, id, getFail, fail, removeOK) ==
    LET got == routeRepository_GetByID(db, id, getFail)
        deleted == routeRepository_Delete(db, id, fail)
        removed == IF got.route[1].row.HasVideoPath /\ removeOK
                   THEN [files_ EXCEPT ![id] = FALSE] ELSE files_
    IN  IF got.err # "nil"
        THEN [err |-> "failed to get route for deletion", db |-> db, files |-> files_]
        ELSE IF deleted.err # "nil"
        THEN [err |-> "failed to delete route from database", db |-> deleted.db,
              files |-> removed]
        ELSE [err |-> "nil", db |-> deleted.db, files |-> removed]

\* RouteService.DeleteRoute: GetByID, Delete, then os.Remove of the video file,
\* whose failure is only logged.
DeleteRoute(db, files_, id, getFail, fail, removeOK) ==
    LET got == routeRepository_GetByID(db, id, getFail)
        deleted == routeRepository_Delete(db, id, fail)
    IN  IF got.err # "nil"
        THEN [err |-> "failed to get route for deletion", db |-> db, files |-> files_]
        ELSE IF deleted.err # "nil"
        THEN [err |-> "failed to delete route from database", db |-> deleted.db,
              files |-> files_]
        ELSE [err |-> "nil", db |-> deleted.db,
              files |-> IF got.route[1].row.HasVideoPath /\ removeOK
                        THEN [files_ EXCEPT ![id] = FALSE] ELSE files_]

InitStore ==
    /\ request \in {[StartPoint |-> Point(0, 0), EndPoint |-> Point(0, 0),
                     SegmentLength |-> 1]}
    /\ frameResults = <<>>
    /\ pc = "idle"
    /\ numFrames = 0
    /\ frameCoords = <<>>
    /\ totalDistance = Float(0)
    /\ segmentIdxs = <<>>
    /\ segments = <<>>
    /\ overallStats = NoStats
    /\ ArchIdle
    /\ HttpIdle
    /\ StoreIdle
    /\ ConcIdle

\* RouteService.SaveRoute with routeRepository.Create, the whole call, for a
\* route id of 8 or more characters. saveVideoFile runs when the file name is
\* not empty: os.Create truncates a file that exists, a failed io.Copy removes
\* the file. The file is not removed when Create fails.
RouteService_SaveRoute ==
    /\ \E id \in RouteIDs, result \in StoreResults :
        /\ sop' = "SaveRoute"
        /\ sid' = id
        /\ sRet' = <<>>
        /\ \/ \E videoFail \in VideoFailures \ {"none"} :
                /\ sErr' = "failed to save video file"
                /\ files' = IF videoFail = "copy"
                            THEN [files EXCEPT ![id] = FALSE] ELSE files
                /\ UNCHANGED <<dbRoutes, dbSegments, saved>>
           \/ \E hasFilename \in BOOLEAN, fail \in CreateFailures :
                LET created == routeRepository_Create(Database,
                                   RouteRow(id, hasFilename, result),
                                   SegmentRows(id, result), fail)
                IN  /\ files' = IF hasFilename THEN [files EXCEPT ![id] = TRUE]
                                ELSE files
                    /\ dbRoutes' = created.db.routes
                    /\ dbSegments' = created.db.segments
                    /\ IF created.err # "nil"
                       THEN /\ sErr' = "failed to save route to database"
                            /\ UNCHANGED saved
                       ELSE /\ sErr' = "nil"
                            /\ saved' = [saved EXCEPT ![id] = <<result>>]
    /\ UNCHANGED <<geoVars, archVars, httpVars, concVars>>

\* RouteService.DeleteRoute, the whole call.
RouteService_DeleteRoute ==
    /\ \E id \in RouteIDs :
        \E in \in ({TRUE} \X {"none"} \X {TRUE})
                  \cup ({FALSE} \X (DeleteFailures \ {"none"}) \X {TRUE})
                  \cup ({FALSE} \X {"none"} \X BOOLEAN) :
            LET out == DeleteRoute(Database, files, id, in[1], in[2], in[3])
            IN  /\ sop' = "DeleteRoute"
                /\ sid' = id
                /\ sErr' = out.err
                /\ sRet' = <<>>
                /\ dbRoutes' = out.db.routes
                /\ dbSegments' = out.db.segments
                /\ files' = out.files
                /\ UNCHANGED saved
    /\ UNCHANGED <<geoVars, archVars, httpVars, concVars>>

\* routeRepository.Delete called on its own.
RouteRepository_Delete ==
    \E id \in RouteIDs, fail \in DeleteFailures :
        LET out == routeRepository_Delete(Database, id, fail)
        IN  /\ sop' = "Delete"
            /\ sid' = id
            /\ sErr' = out.err
            /\ sRet' = <<>>
            /\ dbRoutes' = out.db.routes
            /\ dbSegments' = out.db.segments
            /\ UNCHANGED <<files, saved>>
    /\ UNCHANGED <<geoVars, archVars, httpVars, concVars>>

\* RouteService.GetRouteByID
RouteService_GetRouteByID ==
    \E id \in RouteIDs, getFail \in BOOLEAN :
        LET got == routeRepository_GetByID(Database, id, getFail)
        IN  /\ sop' = "GetRouteByID"
            /\ sid' = id
            /\ sErr' = IF got.err # "nil" THEN "failed to get route" ELSE "nil"
            /\ sRet' = IF got.err # "nil" THEN <<>>
                       ELSE <<modelToResponse(got.route[1])>>
            /\ UNCHANGED <<dbRoutes, dbSegments, files, saved>>
    /\ UNCHANGED <<geoVars, archVars, httpVars, concVars>>

\* RouteService.GetRoutesByArea with routeRepository.GetByArea
RouteService_GetRoutesByArea ==
    \E box \in Boxes :
        /\ sop' = "GetRoutesByArea"
        /\ sid' = ""
        /\ sErr' = "nil"
        /\ sRet' = <<[box |-> box,
                      routes |-> routeRepository_GetByArea(Database, box.ne, box.sw)]>>
        /\ UNCHANGED <<dbRoutes, dbSegments, files, saved>>
    /\ UNCHANGED <<geoVars, archVars, httpVars, concVars>>

NextStore ==
    \/ RouteService_SaveRoute
    \/ RouteService_DeleteRoute
    \/ RouteRepository_Delete
    \/ RouteService_GetRouteByID
    \/ RouteService_GetRoutesByArea

SpecStore == InitStore /\ [][NextStore]_vars

---------------------------------------------------------------------------
\* Two requests of RouteHandler.AnalyzeRoadMarking that reach SaveRoute with
\* video data and a file name, interleaved at the two steps of SaveRoute:
\* saveVideoFile, then routeRepo.Create. The route id is the form's route_id.

VideoPath(p) == <<cReq[p].RouteID, cReq[p].Ext>>

InitConcurrent ==
    /\ request \in {[StartPoint |-> Point(0, 0), EndPoint |-> Point(0, 0),
                     SegmentLength |-> 1]}
    /\ frameResults = <<>>
    /\ pc = "idle"
    /\ numFrames = 0
    /\ frameCoords = <<>>
    /\ totalDistance = Float(0)
    /\ segmentIdxs = <<>>
    /\ segments = <<>>
    /\ overallStats = NoStats
    /\ ArchIdle
    /\ HttpIdle
    /\ StoreIdle
    /\ cReq \in [Uploads -> [RouteID : RouteIDs, Ext : Exts]]
    /\ cpc = [p \in Uploads |-> "start"]
    /\ disk = [path \in VideoPaths |-> 0]
    /\ rowOwner = [id \in RouteIDs |-> 0]
    /\ cErr = [p \in Uploads |-> ""]

\* saveVideoFile of request p: os.Create truncates the file of that path and
\* io.Copy fills it; a failed io.Copy removes the file, a failed MkdirAll or
\* os.Create leaves what was there.
SaveVideoFileStep(p) ==
    /\ cpc[p] = "start"
    /\ \E videoFail \in VideoFailures :
          IF videoFail = "none"
          THEN /\ disk' = [disk EXCEPT ![VideoPath(p)] = p]
               /\ cpc' = [cpc EXCEPT ![p] = "saved"]
               /\ UNCHANGED cErr
          ELSE /\ disk' = IF videoFail = "copy"
                          THEN [disk EXCEPT ![VideoPath(p)] = 0] ELSE disk
               /\ cpc' = [cpc EXCEPT ![p] = "done"]
               /\ cErr' = [cErr EXCEPT ![p] = "failed to save video file"]
    /\ UNCHANGED <<cReq, rowOwner>>
    /\ UNCHANGED <<geoVars, archVars, httpVars, storeVars>>

\* routeRepo.Create of request p, one transaction: the primary key rejects a
\* route id that has a row. The video file stays when Create fails.
CreateStep(p) ==
    /\ cpc[p] = "saved"
    /\ \E fail \in CreateFailures :
          IF fail # "none" \/ rowOwner[cReq[p].RouteID] # 0
          THEN /\ cErr' = [cErr EXCEPT ![p] = "failed to save route to database"]
               /\ UNCHANGED rowOwner
          ELSE /\ cErr' = [cErr EXCEPT ![p] = "nil"]
               /\ rowOwner' = [rowOwner EXCEPT ![cReq[p].RouteID] = p]
    /\ cpc' = [cpc EXCEPT ![p] = "done"]
    /\ UNCHANGED <<cReq, disk>>
    /\ UNCHANGED <<geoVars, archVars, httpVars, storeVars>>

NextConcurrent ==
    \/ \E p \in Uploads : SaveVideoFileStep(p)
    \/ \E p \in Uploads : CreateStep(p)

SpecConcurrent == InitConcurrent /\ [][NextConcurrent]_vars

---------------------------------------------------------------------------
\* Vocabulary of the properties, stated on integers without the operators above.
Start == request.StartPoint
End == request.EndPoint
SegLen == request.SegmentLength
Returned == pc = "done"
PositiveDistance == totalDistance[1] > 0

\* n is the ceiling of x / len, x a rational <<p, q>>
IsCeilOf(n, x, len) == n * len * x[2] >= x[1] /\ (n - 1) * len * x[2] < x[1]
\* n is the floor of x / len
IsFloorOf(n, x, len) == n * len * x[2] <= x[1] /\ x[1] < (n + 1) * len * x[2]
\* c is a multiple of 1/10 nearest to num / den
IsNearestTenth(c, num, den) ==
    /\ (10 * c[1]) % c[2] = 0
    /\ 2 * Abs(10 * num * c[2] - ((10 * c[1]) \div c[2]) * den * c[2]) <= den * c[2]
\* the point at ratio num / den of the straight line from Start to End
IsOnLineAt(c, num, den) ==
    /\ c.Lat[1] * den = c.Lat[2] * (Start.Lat[1] * den + (End.Lat[1] - Start.Lat[1]) * num)
    /\ c.Lon[1] * den = c.Lon[2] * (Start.Lon[1] * den + (End.Lon[1] - Start.Lon[1]) * num)

FramesOf(j) == {k \in 1..Len(segmentIdxs) : segmentIdxs[k] = j}
RECURSIVE MarkingsOf(_)
MarkingsOf(ks) ==
    IF ks = {} THEN 0
    ELSE LET k == CHOOSE x \in ks : TRUE IN frameResults[k] + MarkingsOf(ks \ {k})
RECURSIVE FramesCounted(_)
FramesCounted(n) == IF n = 0 THEN 0 ELSE segments[n].FramesCount + FramesCounted(n - 1)

\* C1: with total_distance > 0 CalculateSegments returns, for every frame-result
\* array, exactly ceil(total_distance / segment_length) segments.
C1_SegmentCountIsCeil ==
    (pc # "start" /\ PositiveDistance) =>
        (Returned /\ IsCeilOf(Len(segments), totalDistance, SegLen))

C1_Witness ==
    /\ Returned /\ frameResults = <<>>
    /\ totalDistance = Float(3) /\ SegLen = 2 /\ Len(segments) = 2

\* C2: with total_distance > 0 the frames_count of the returned segments sum to
\* the number of input frame results.
C2_FramesCountedOnce ==
    (pc # "start" /\ PositiveDistance) =>
        (Returned /\ FramesCounted(Len(segments)) = Len(frameResults))

C2_Witness ==
    /\ Returned /\ Len(frameResults) = MaxFrames
    /\ \E a, b \in 1..Len(segments) :
          a # b /\ segments[a].FramesCount >= 2 /\ segments[b].FramesCount >= 2

\* C3: frame i is bucketed at floor(d_i / segment_length), d_i the distance from
\* the route start to the i-th interpolated coordinate, replaced by
\* num_segments - 1 when that is >= num_segments; with total_distance > 0 the
\* index is within 0..num_segments-1, and segment j counts the frames bucketed at j.
C3_BucketIndex ==
    (pc # "start" /\ PositiveDistance) =>
        /\ Returned
        /\ Len(segmentIdxs) = Len(frameResults)
        /\ \A k \in 1..Len(segmentIdxs) :
              LET d == DistanceMeters(Start, frameCoords[k])
                  f == CHOOSE n \in 0..(d[1] \div d[2]) : IsFloorOf(n, d, SegLen)
                  N == Len(segments)
              IN  /\ segmentIdxs[k] = IF f >= N THEN N - 1 ELSE f
                  /\ segmentIdxs[k] \in 0..(N - 1)
        /\ \A j \in 0..(Len(segments) - 1) :
              segments[j + 1].FramesCount = Cardinality(FramesOf(j))

C3_Witness ==
    /\ Returned
    /\ \E k \in 1..Len(segmentIdxs) :
          /\ DistanceMeters(Start, frameCoords[k]) = Float(Len(segments) * SegLen)
          /\ segmentIdxs[k] = Len(segments) - 1
    /\ \E k \in 1..Len(segmentIdxs) :
          /\ segmentIdxs[k] = 1
          /\ FLess(DistanceMeters(Start, frameCoords[k]), Float(2 * SegLen))

\* C4: the returned segments carry the ids 1, 2, ..., N in sequence order.
C4_SegmentIdsContiguous ==
    Returned => \A k \in 1..Len(segments) : segments[k].SegmentID = k

C4_Witness ==
    /\ Returned /\ Len(segments) >= 3
    /\ \E k \in 1..Len(segments) : ~segments[k].HasData
    /\ \E k \in 1..Len(segments) : segments[k].HasData

\* C5: a segment no frame was assigned to is still emitted, with frames_count 0,
\* coverage 0 and has_data false; has_data is true exactly when frames_count > 0;
\* with no input frame all ceil(total_distance / segment_length) segments are
\* emitted without data.
C5_EmptySegmentsKept ==
    Returned =>
        /\ PositiveDistance => IsCeilOf(Len(segments), totalDistance, SegLen)
        /\ \A k \in 1..Len(segments) :
              /\ segments[k].HasData <=> segments[k].FramesCount > 0
              /\ segments[k].SegmentID = k
              /\ FramesOf(k - 1) = {} =>
                    /\ segments[k].FramesCount = 0
                    /\ segments[k].CoveragePercentage = Float(0)
                    /\ ~segments[k].HasData
        /\ frameResults = <<>> => \A k \in 1..Len(segments) : ~segments[k].HasData

C5_Witness ==
    /\ Returned /\ Len(frameResults) >= 2
    /\ \E k \in 1..Len(segments) :
          /\ FramesOf(k - 1) = {}
          /\ segments[k].FramesCount = 0
          /\ k < Len(segments)

\* C6: a segment with assigned frames has coverage 100 * sum / count of its
\* frames rounded to one decimal; it lies in 0..100, is 100 when all its frames
\* are 1, and is 60 for the results 1,0,1,0,1 in a single segment.
C6_Coverage ==
    Returned =>
        /\ \A k \in 1..Len(segments) :
              LET ks == FramesOf(k - 1)
                  c == segments[k].CoveragePercentage
              IN  ks # {} =>
                    /\ IsNearestTenth(c, 100 * MarkingsOf(ks), Cardinality(ks))
                    /\ c[1] >= 0 /\ c[1] <= 100 * c[2]
                    /\ (\A x \in ks : frameResults[x] = 1) => c = Float(100)
        /\ (frameResults = <<1, 0, 1, 0, 1>> /\ Len(segments) = 1) =>
              segments[1].CoveragePercentage = Float(60)

C6_Witness ==
    /\ Returned /\ frameResults = <<1, 0, 1, 0, 1>> /\ Len(segments) = 1
    /\ segments[1].FramesCount = 5
    /\ segments[1].CoveragePercentage = Float(60)

RECURSIVE CoverageWithData(_)
CoverageWithData(n) ==
    IF n = 0 THEN <<0, 1>>
    ELSE LET rest == CoverageWithData(n - 1)
             c == segments[n].CoveragePercentage
         IN  IF segments[n].HasData
             THEN <<rest[1] * c[2] + c[1] * rest[2], rest[2] * c[2]>>
             ELSE rest

C8_AllSegmentsInterpolated ==
    Returned =>
        \A k \in 1..Len(segments) :
            LET p == totalDistance[1]
                q == totalDistance[2]
                upper == IF k * SegLen * q < p THEN k * SegLen * q ELSE p
            IN  /\ IsOnLineAt(segments[k].StartCoordinate, (k - 1) * SegLen * q, p)
                /\ IsOnLineAt(segments[k].EndCoordinate, upper, p)

\* C9: with total_distance > 0 and any number of frames the last segment ends
\* at the route's end coordinate and the first starts at the route's start.
C9_RouteEndpoints ==
    (Returned /\ PositiveDistance) =>
        /\ segments[Len(segments)].EndCoordinate = End
        /\ segments[1].StartCoordinate = Start

---------------------------------------------------------------------------
\* Properties of the archive path.
ArchiveOk == apc = "returned" /\ aErr = "nil"
RouteStart == Coordinates(aRequest.startLat, aRequest.startLon)
RouteEnd == Coordinates(aRequest.endLat, aRequest.endLon)
NothingPersisted ==
    ~annotatedSaved /\ ~saveRouteCalled /\ ~videoStored /\ ~routeStored

\* C11: for every bundle with at least one segment, also with exactly one, the
\* first output segment of the archive path starts at the request's route
\* start and the last output segment ends at the request's route end.
C11_ArchiveEndpoints ==
    (ArchiveOk /\ Len(upstream.bundle.Segments) >= 1) =>
        LET segs == aResult[1].Segments IN
        /\ segs[1].StartCoordinate = RouteStart
        /\ segs[Len(segs)].EndCoordinate = RouteEnd

\* C12: every field of the archive path's overall_stats, segment_length_meters
\* included, equals the field of the bundle's analysis_results.json.
C12_StatsFromBundle ==
    ArchiveOk =>
        LET out == aResult[1].OverallStats
            in == upstream.bundle.OverallStats
        IN  /\ out.TotalFrames = in.TotalFrames
            /\ out.TotalDistanceMeters = in.TotalDistanceMeters
            /\ out.SegmentLengthMeters = Float(in.SegmentLengthMeters)
            /\ out.TotalSegments = in.TotalSegments
            /\ out.SegmentsWithData = in.SegmentsWithData
            /\ out.AverageCoverage = in.AverageCoverage

\* C13: the archive path emits one output segment per bundle segment, in the
\* bundle's order, with the bundle segment's segment_id, frames_count,
\* coverage_percentage and has_data.
C13_SegmentsPassedThrough ==
    ArchiveOk =>
        LET out == aResult[1].Segments
            in == upstream.bundle.Segments
        IN  /\ Len(out) = Len(in)
            /\ \A k \in 1..Len(in) :
                  /\ out[k].SegmentID = in[k].SegmentID
                  /\ out[k].FramesCount = in[k].FramesCount
                  /\ out[k].CoveragePercentage = in[k].CoveragePercentage
                  /\ out[k].HasData = in[k].HasData

C13_Witness ==
    /\ ArchiveOk
    /\ Len(aResult[1].Segments) >= 2
    /\ aResult[1].Segments[1].SegmentID = 2
    /\ aResult[1].Segments[2].SegmentID = 1
    /\ aResult[1].Segments[2].FramesCount = 2

\* C14: an archive without analysis_results.json makes processZipArchive and
\* AnalyzeRoadMarking return an error and no result; no annotated video and no
\* route is saved, and no zero statistics are returned.
C14_MissingJsonIsAnError ==
    (apc # "called" /\ upstream.kind = "no_json") =>
        /\ apc = "returned"
        /\ aErr # "nil"
        /\ zipResult = <<>>
        /\ aResult = <<>>
        /\ NothingPersisted

C14_Witness ==
    /\ apc = "returned"
    /\ upstream.kind = "no_json"
    /\ upstream.annotated
    /\ aRequest.videoFile = "data"
    /\ aErr = "failed to process ZIP archive"

\* C15: when the exchange with the inference service fails (transport error,
\* status other than 200, unreadable body, invalid zip, unparsable JSON) the
\* archive path returns an error and no result, and SaveRoute is called only
\* after a successfully parsed upstream result.
C15_NoRouteAfterUpstreamFailure ==
    /\ (apc # "called"
            /\ upstream.kind \in {"transport", "status", "body", "zip", "entry", "json"}) =>
          /\ apc = "returned"
          /\ aErr # "nil"
          /\ aResult = <<>>
          /\ ~saveRouteCalled /\ ~videoStored /\ ~routeStored
    /\ saveRouteCalled => (upstream.kind = "none" /\ zipResult # <<>>)

C15_Witness ==
    /\ apc = "returned"
    /\ upstream.kind = "status"
    /\ aRequest.videoFile = "data"
    /\ aErr = "python service returned error"
    /\ ~saveRouteCalled

\* C17: when the upstream analysis succeeded and SaveRoute fails (video file
\* write or database create) the archive path returns the result of
\* processZipArchive with a nil error, the same result as when SaveRoute
\* succeeds.
C17_SaveFailureKeepsResult ==
    (apc = "returned" /\ saveRouteCalled) =>
        /\ aErr = "nil"
        /\ aResult = zipResult
        /\ aResult = ProcessZipArchive(upstream, aRequest.startLat, aRequest.startLon,
                                       aRequest.endLat, aRequest.endLon,
                                       aRequest.segmentLength).result
        /\ aResult # <<>>

C17_Witness ==
    /\ apc = "returned"
    /\ saveRouteOutcome = "failed to save route to database"
    /\ videoStored /\ ~routeStored
    /\ aErr = "nil"
    /\ Len(aResult[1].Segments) >= 1

\* C20: with identical start and end coordinates (total_distance = 0), any
\* segment_length > 0 and any number of frame results, the analysis returns
\* (no index out of range, no division by zero) with zero segments or a single
\* zero-length segment, and average coverage 0.
C20_ZeroDistanceReturns ==
    (pc # "start" /\ Start = End) =>
        /\ Returned
        /\ Len(segments) <= 1
        /\ overallStats.AverageCoverage = Float(0)

---------------------------------------------------------------------------
\* Properties of the HTTP handlers.
Handled(h) == hpc # "received" /\ handledBy = h

\* The number a form field holds lies outside [-max, max].
FieldOutside(field, max) ==
    \/ field.kind = "num" /\ (field.val < -max \/ field.val > max)
    \/ field.kind = "frac" /\ (field.val < -max \/ field.val >= max)

FieldNotPositive(field) ==
    \/ field.kind = "num" /\ field.val <= 0
    \/ field.kind = "frac" /\ field.val < 0

\* A float64 handed to the service lies in [-max, max].
InRange(x, max) ==
    /\ ~x.nan
    /\ ~FLess(x.val, Float(-max))
    /\ ~FLess(Float(max), x.val)

\* C16: in the flat-array path, when the inference client call fails or the
\* upstream status is not "success", the HTTP response is a non-success
\* response (not a 200) and no segment computation is run.
C16_UpstreamFailureIsNotSuccess ==
    (Handled("AnalyzerHandler") /\ clientResult \in {"error", "not_success"}) =>
        /\ hpc = "responded"
        /\ ~(httpStatus \in 200..299)
        /\ ~computeRan

\* C18: RouteHandler answers 400 and does not invoke the analyzer service for
\* every request with a latitude outside [-90,90], a longitude outside
\* [-180,180], a segment length <= 0, or no video part.
C18_RouteHandlerValidates ==
    (Handled("RouteHandler")
        /\ (\/ FieldOutside(form.startLat, LatMax)
            \/ FieldOutside(form.endLat, LatMax)
            \/ FieldOutside(form.startLon, LonMax)
            \/ FieldOutside(form.endLon, LonMax)
            \/ FieldNotPositive(form.segmentLength)
            \/ form.video = "missing")) =>
        /\ httpStatus = 400
        /\ ~serviceCalled

\* C19: AnalyzerHandler invokes the analyzer service only with a segment
\* length in 50..1000 (100 when the field is omitted), latitudes in [-90,90]
\* and longitudes in [-180,180]; a request violating one of these, or lacking
\* the video or a coordinate field, gets a 400 and the service is not called.
C19_AnalyzerHandlerValidates ==
    Handled("AnalyzerHandler") =>
        /\ serviceCalled =>
              LET args == serviceArgs[1] IN
              /\ args.SegmentLength \in SegmentLengthMin..SegmentLengthMax
              /\ form.segmentLength.kind = "missing" =>
                    args.SegmentLength = SegmentLengthDefault
              /\ InRange(args.StartPoint.Lat, LatMax)
              /\ InRange(args.EndPoint.Lat, LatMax)
              /\ InRange(args.StartPoint.Lon, LonMax)
              /\ InRange(args.EndPoint.Lon, LonMax)
        /\ (\/ FieldOutside(form.startLat, LatMax)
            \/ FieldOutside(form.endLat, LatMax)
            \/ FieldOutside(form.startLon, LonMax)
            \/ FieldOutside(form.endLon, LonMax)
            \/ form.segmentLength.kind \in {"text", "nan", "frac"}
            \/ form.segmentLength.kind = "num"
                  /\ ~(form.segmentLength.val \in SegmentLengthMin..SegmentLengthMax)
            \/ form.video = "missing"
            \/ "missing" \in {form.startLat.kind, form.startLon.kind,
                              form.endLat.kind, form.endLon.kind}) =>
              /\ httpStatus = 400
              /\ ~serviceCalled

---------------------------------------------------------------------------
\* C22: in the flat-array path total_segments is the number of segments
\* returned, segments_with_data the number of segments with has_data,
\* total_frames the number of input frame results and segment_length_meters the
\* requested segment length.
C22_RollUpConsistent ==
    Returned =>
        /\ overallStats.TotalSegments = Len(segments)
        /\ overallStats.SegmentsWithData =
              Cardinality({k \in 1..Len(segments) : segments[k].HasData})
        /\ overallStats.TotalFrames = Len(frameResults)
        /\ overallStats.SegmentLengthMeters = SegLen

C22_Witness ==
    /\ Returned
    /\ Len(frameResults) >= 2
    /\ overallStats.TotalSegments >= 3
    /\ overallStats.SegmentsWithData >= 2
    /\ overallStats.SegmentsWithData < overallStats.TotalSegments

\* C24: when SaveRoute has written the video file and the database create
\* fails, SaveRoute returns an error and the video file is removed again.
C24_FailedSaveLeavesNoVideo ==
    (saveRouteCalled /\ saveRouteOutcome = "failed to save route to database") =>
        ~videoStored

\* C26: SaveRoute returns normally for every non-empty route id, also for ids
\* shorter than 8 characters, so a successful analysis with any route_id
\* returns the analysis result.
C26_AnyRouteIdReturns ==
    (apc # "called" /\ upstream.kind = "none") =>
        /\ apc = "returned"
        /\ aErr = "nil"
        /\ aResult # <<>>
        /\ saveRouteCalled => saveRouteOutcome # "panic"

\* C29: with N >= 2 bundle segments the output segments of the archive path
\* tile the route: the end of segment i is the start of segment i+1 for every
\* i < N-1, and segment i spans progress i/N to (i+1)/N of the line from route
\* start to route end.
OnRouteAt(c, num, den) ==
    /\ (c.Lat[1] - aRequest.startLat[1] * c.Lat[2]) * den =
          (aRequest.endLat[1] - aRequest.startLat[1]) * num * c.Lat[2]
    /\ (c.Lon[1] - aRequest.startLon[1] * c.Lon[2]) * den =
          (aRequest.endLon[1] - aRequest.startLon[1]) * num * c.Lon[2]

C29_SegmentsTileRoute ==
    (ArchiveOk /\ Len(upstream.bundle.Segments) >= 2) =>
        LET segs == aResult[1].Segments
            N == Len(segs)
        IN  /\ \A k \in 1..(N - 1) : segs[k].EndCoordinate = segs[k + 1].StartCoordinate
            /\ \A k \in 1..N :
                  /\ OnRouteAt(segs[k].StartCoordinate, k - 1, N)
                  /\ OnRouteAt(segs[k].EndCoordinate, k, N)

C29_Witness ==
    /\ ArchiveOk
    /\ Len(aResult[1].Segments) >= 3
    /\ RouteStart.Lat # RouteEnd.Lat
    /\ RouteStart.Lon # RouteEnd.Lon
    /\ aResult[1].Segments[2].StartCoordinate # RouteStart
    /\ aResult[1].Segments[2].EndCoordinate # RouteEnd

\* The tables after a step, and the other route id.
DatabaseAfter == [routes |-> dbRoutes', segments |-> dbSegments']
OtherID(id) == CHOOSE o \in RouteIDs : o # id

\* C21: after routeRepository.Delete(id) returns nil, neither the route of that
\* id nor any segment with route_id = id is retrievable; when it returns an
\* error, "not found" included, the stored routes and segments are what they
\* were before the call.
C21_DeleteCascadesOrNothing ==
    [][sop' \in {"Delete", "DeleteRoute"} =>
          IF sErr' = "nil"
          THEN /\ routeRepository_GetByID(DatabaseAfter, sid', FALSE).err
                      = "route not found"
               /\ LiveSegments(DatabaseAfter, sid') = <<>>
          ELSE dbRoutes' = dbRoutes /\ dbSegments' = dbSegments]_vars

\* A Delete that returned nil for a route that had segments, the other route
\* and its segments still stored.
C21_Witness ==
    /\ sop = "Delete"
    /\ sErr = "nil"
    /\ \E k \in 1..Len(dbSegments) : dbSegments[k].RouteID = sid
    /\ IsLive(Database, OtherID(sid))
    /\ LiveSegments(Database, OtherID(sid)) # <<>>

\* C23: routeRepository.Create is all-or-nothing: when it returns an error
\* the tables are what they were before the call; when it returns nil the
\* route is stored and every segment of the saved result is stored with
\* route_id equal to the route's id.
C23_CreateAllOrNothing ==
    [][(sop' = "SaveRoute" /\ sErr' # "failed to save video file") =>
          IF sErr' = "nil"
          THEN /\ IsLive(DatabaseAfter, sid')
               /\ dbRoutes[sid'] = <<>>
               /\ \A g \in Range(SegmentRows(sid', saved'[sid'][1])) :
                     /\ g.RouteID = sid'
                     /\ \E k \in 1..Len(dbSegments') : dbSegments'[k] = g
               /\ \A k \in 1..Len(dbSegments') :
                     dbSegments'[k].RouteID = sid' =>
                         dbSegments'[k] \in Range(SegmentRows(sid', saved'[sid'][1]))
          ELSE dbRoutes' = dbRoutes /\ dbSegments' = dbSegments]_vars

\* A Create that returned nil for a route of two segments while the other
\* route id has rows of its own.
C23_Witness ==
    /\ sop = "SaveRoute"
    /\ sErr = "nil"
    /\ Len(saved[sid][1].Segments) >= 2
    /\ Len(LiveSegments(Database, sid)) >= 2
    /\ \E k \in 1..Len(dbSegments) : dbSegments[k].RouteID = OtherID(sid)

\* C27: RouteService.DeleteRoute removes the video file only after the
\* database delete has succeeded: when it returns an error the files are
\* untouched and the route is as it was; when the database delete has
\* succeeded it returns nil, also when the file is still there.
C27_FileRemovedAfterDelete ==
    [][sop' = "DeleteRoute" =>
          /\ sErr' # "nil" =>
                /\ files' = files
                /\ IsLive(DatabaseAfter, sid') = IsLive(Database, sid')
          /\ (IsLive(Database, sid') /\ ~IsLive(DatabaseAfter, sid')) => sErr' = "nil"
          /\ sErr' = "nil" => (IsLive(Database, sid') /\ ~IsLive(DatabaseAfter, sid'))
          /\ \A id \in RouteIDs : files'[id] # files[id] => (id = sid' /\ sErr' = "nil")]_vars

\* DeleteRoute returned nil for a route with a video path although the file
\* could not be removed.
C27_Witness ==
    /\ sop = "DeleteRoute"
    /\ sErr = "nil"
    /\ dbRoutes[sid][1].Deleted
    /\ dbRoutes[sid][1].HasVideoPath
    /\ files[sid]

\* C28: GetRouteByID after SaveRoute returns the start and end points, the
\* segment_length, the overall_stats and the segments of the saved result.
C28_RoundTrip ==
    (sop = "GetRouteByID" /\ sErr = "nil") =>
        /\ sRet[1].StartPoint = saved[sid][1].StartPoint
        /\ sRet[1].EndPoint = saved[sid][1].EndPoint
        /\ sRet[1].SegmentLength = saved[sid][1].SegmentLength
        /\ sRet[1].OverallStats = saved[sid][1].OverallStats
        /\ sRet[1].Segments = saved[sid][1].Segments

\* The routes of the tables that are retrievable and own a segment with its
\* start point or its end point in the box.
RoutesInArea(box) ==
    {id \in RouteIDs :
        /\ IsLive(Database, id)
        /\ \E g \in Range(LiveSegments(Database, id)) : InArea(g, box.ne, box.sw)}

C25_VideoBelongsToStoredRoute ==
    (\A p \in Uploads : cpc[p] = "done") =>
        \A p \in Uploads :
            (cReq[p].RouteID # "" /\ rowOwner[cReq[p].RouteID] = p) =>
                disk[VideoPath(p)] = p

====
